---- MODULE Spec2Model ----
(***************************************************************************)
(* Voice-session signaling of AI-Study-Group: the useWebRTC hook (the      *)
(* Session Negotiation Coordinator), the VoiceChatProvider presence poll,  *)
(* and the Signaling Relay / Room Registry they talk to.                   *)
(*                                                                         *)
(* The hook and the poll are translated from the TypeScript sources.  The  *)
(* relay and the registry run on the server, whose code is not part of the *)
(* sources; they are modelled from sections 4.1, 4.2 and 6 of the          *)
(* specification, with the envelope names the client code uses             *)
(* (existing-users = room_state, user-joined = join, user-left = leave).   *)
(***************************************************************************)
EXTENDS Integers, Sequences, FiniteSets, TLC

\* ------------------------------------------------------------------ bounds
\* Control connections (WebSockets) opened over a whole run.
MaxConns == 3
\* Spec: joinVoice calls of user "10" and of user "9".
JoinsLow == 2
JoinsHigh == 1
\* The other specifications: joinVoice calls of each user.
OneJoin == 1
\* PollSpec: presence-poll responses fetched over a whole run.
MaxPolls == 2
\* IceSpec: ICE candidates one RTCPeerConnection emits.
MaxCand == 2
\* Failures of the media path the network may cause in RetrySpec.
MaxDrops == 2
\* DebounceSpec: the network drops a connected link this often.
OneDrop == 1
\* The relay's inactivity window, in ping intervals (3 x the ping interval).
PingWindow == 3

\* ------------------------------------------------------------- identities
\* User ids are strings; a string is modelled as the sequence of its code
\* units, so that "10" < "9" lexicographically although 10 > 9.
U10 == <<1, 0>>
U9 == <<9>>
U91 == <<9, 1>>
Users == {U10, U9, U91}
Rooms == {"r1"}
ConnIds == 1 .. MaxConns

\* userId < other (JavaScript string comparison: by code unit, a proper
\* prefix sorts first).
RECURSIVE StrLess(_, _)
StrLess(s, t) ==
  IF t = <<>> THEN FALSE
  ELSE IF s = <<>> THEN TRUE
  ELSE IF Head(s) # Head(t) THEN Head(s) < Head(t)
  ELSE StrLess(Tail(s), Tail(t))

\* ------------------------------------------------------------------ state
VARIABLES
  conn,            \* relay: connection id -> [st, pid, room, idle, cut]
  registry,        \* registry: room -> members in join order, [pid, conn]
  up,              \* connection id -> envelopes client -> relay, in order
  down,            \* connection id -> envelopes relay -> client, in order
  sockState,       \* client: WebSocket.readyState of each connection
  socketRef,       \* client: socketRef.current (0 = null)
  localStream,     \* client: localStreamRef.current is a live stream
  isConnected,     \* client: isConnected state
  connectedUsers,  \* client: connectedUsers state (list of user ids)
  peersRef,        \* client: peersRef.current, remote id -> RTCPeerConnection
  peers,           \* client: remote ids with a MediaStream in peers state
  pcCtr,           \* client: RTCPeerConnections constructed so far
  poll,            \* client: the presence-poll response in flight
  timers,          \* client: pending 5 s disconnect timers, <<user, remote>>
  joinsLeft,       \* environment: joinVoice calls each user may still make
  pollsLeft,       \* environment: poll fetches left
  dropsLeft,       \* environment: network drops of a connected link left
  nOffer,          \* history: offer envelopes sent, per <<from, to>>
  nAnswer,         \* history: answer envelopes sent, per <<from, to>>
  relLog,          \* history: what the last shutdown released, in order
  answerDropped,   \* history: users who received an answer for no outstanding offer
  joining,         \* client: joinVoice calls awaiting getUserMedia, per user
  orphans,         \* client: closed connections whose setup was still awaited
  logging,         \* the history this specification keeps: kinds of log entry, "links"
  log              \* history: envelopes dropped or ignored, polls applied

relayVars == <<conn, registry, up, down>>
clientVars == <<sockState, socketRef, localStream, isConnected, connectedUsers,
                peersRef, peers, pcCtr, poll, timers>>
envVars == <<joinsLeft, pollsLeft, dropsLeft>>
asyncVars == <<joining, orphans>>
logVars == <<logging, log>>
\* What the basic actions leave alone: the history, the awaited calls of the
\* two-step join and of closed connections, and the log.
histVars == <<nOffer, nAnswer, relLog, answerDropped, asyncVars, logVars>>
vars == <<relayVars, clientVars, envVars, histVars>>

\* --------------------------------------------------------------- envelopes
\* One record shape for every envelope: type, userId (sender), targetUserId,
\* the description or candidate it carries (pc = the RTCPeerConnection that
\* made it, re = the offer an answer answers, n = candidate number) and the
\* user list of existing-users and the reason of a leave.
Env(type, from, to, pc, re, n, users, reason) ==
  [type |-> type, userId |-> from, targetUserId |-> to,
   pc |-> pc, re |-> re, n |-> n, users |-> users, reason |-> reason]
NoUser == <<>>
Ctl(type, from) == Env(type, from, NoUser, 0, 0, 0, <<>>, "")
ExistingUsers(users) == Env("existing-users", NoUser, NoUser, 0, 0, 0, users, "")
UserLeft(p, reason) == Env("user-left", p, NoUser, 0, 0, 0, <<>>, reason)
\* The transport's close event, queued behind the envelopes sent before it.
CloseEvt == Ctl("close", NoUser)

\* One entry of the log: what happened (kind), the envelope type, the user
\* and connection it happened at, the users a poll response listed, and the
\* user's connections and their count at that moment.
Entry(kind, type, u, k, users) ==
  [kind |-> kind, type |-> type, user |-> u, conn |-> k, users |-> users,
   pcs |-> peersRef[u], ctr |-> pcCtr[u]]
Logged(e) == IF e.kind \in logging THEN log \cup {e} ELSE log

\* The envelope jumps the queue of every target.
PushAllFront(q, targets, m) ==
  [j \in ConnIds |->
     IF j \in targets /\ sockState[j] # "CLOSED" /\ ~conn[j].cut
     THEN <<m>> \o q[j] ELSE q[j]]

\* Append m to the queue of every connection of targets: the relay writes m
\* to each transport behind what it wrote before.  Bytes sent to a socket
\* whose client end is closed are discarded.
PushAll(q, targets, m) ==
  [j \in ConnIds |->
     IF j \in targets /\ sockState[j] # "CLOSED" /\ ~conn[j].cut
     THEN Append(q[j], m) ELSE q[j]]

\* ----------------------------------------------------------- Room Registry
RegMembers(reg, room) == IF room \in DOMAIN reg THEN reg[room] ELSE <<>>

\* join(roomId, participant): an entry of the same identity is evicted
\* first; the room is created on first join.
RegJoin(reg, room, p, k) ==
  LET kept == SelectSeq(RegMembers(reg, room), LAMBDA e : e.pid # p)
  IN [r \in DOMAIN reg \cup {room} |->
        IF r = room THEN Append(kept, [pid |-> p, conn |-> k]) ELSE reg[r]]

\* A room left without members is not retained.
RegLeaveKeepEmpty(reg, room, p) ==
  [r \in DOMAIN reg |->
     IF r = room THEN SelectSeq(reg[r], LAMBDA e : e.pid # p) ELSE reg[r]]

\* leave(roomId, participantId): removes the participant; the room entry is
\* deleted when it becomes empty.
RegLeave(reg, room, p) ==
  LET kept == SelectSeq(RegMembers(reg, room), LAMBDA e : e.pid # p)
  IN IF kept = <<>>
     THEN [r \in DOMAIN reg \ {room} |-> reg[r]]
     ELSE [r \in DOMAIN reg |-> IF r = room THEN kept ELSE reg[r]]

\* snapshot(roomId): the member ids, ordered by join time.
RECURSIVE Pids(_)
Pids(ms) == IF ms = <<>> THEN <<>> ELSE <<Head(ms).pid>> \o Pids(Tail(ms))
Snapshot(reg, room) == Pids(RegMembers(reg, room))

ConnsOf(ms) == {ms[i].conn : i \in 1 .. Len(ms)}
PidSet(ms) == {ms[i].pid : i \in 1 .. Len(ms)}
\* Every connection of the room, whoever the participant.
RegConnAll(reg, room, p) == ConnsOf(RegMembers(reg, room))

\* The connections registered for participant p in the room.
RegConn(reg, room, p) ==
  LET ms == RegMembers(reg, room)
  IN {ms[i].conn : i \in {j \in 1 .. Len(ms) : ms[j].pid = p}}

\* ---------------------------------------------------------- Signaling Relay
\* The join notification is echoed to the joiner as well.
RelayAcceptEcho(k) ==
  /\ conn[k].st = "CONNECTING"
  /\ LET room == conn[k].room
         p == conn[k].pid
         before == RegMembers(registry, room)
         others == SelectSeq(before, LAMBDA e : e.pid # p)
         evicted == RegConn(registry, room, p)
         d1 == PushAll(down, {k}, ExistingUsers(Pids(others)))
         d2 == PushAll(d1, evicted, UserLeft(p, "superseded"))
         d3 == PushAll(d2, ConnsOf(others) \cup {k}, Ctl("user-joined", p))
     IN /\ registry' = RegJoin(registry, room, p, k)
        /\ conn' = [j \in ConnIds |->
                      IF j = k THEN [conn[j] EXCEPT !.st = "ACTIVE"]
                      ELSE IF j \in evicted THEN [conn[j] EXCEPT !.st = "CLOSING"]
                      ELSE conn[j]]
        /\ down' = d3
  /\ UNCHANGED <<up, clientVars, envVars, histVars>>

\* AUTHENTICATED -> ACTIVE: registry join, room_state to the new connection,
\* join notification to the other members; a previous connection of the same
\* identity is superseded: told so, and put to CLOSING.
RelayAccept(k) ==
  /\ conn[k].st = "CONNECTING"
  /\ LET room == conn[k].room
         p == conn[k].pid
         before == RegMembers(registry, room)
         others == SelectSeq(before, LAMBDA e : e.pid # p)
         evicted == RegConn(registry, room, p)
         d1 == PushAll(down, {k}, ExistingUsers(Pids(others)))
         d2 == PushAll(d1, evicted, UserLeft(p, "superseded"))
         d3 == PushAll(d2, ConnsOf(others), Ctl("user-joined", p))
     IN /\ registry' = RegJoin(registry, room, p, k)
        /\ conn' = [j \in ConnIds |->
                      IF j = k THEN [conn[j] EXCEPT !.st = "ACTIVE"]
                      ELSE IF j \in evicted THEN [conn[j] EXCEPT !.st = "CLOSING"]
                      ELSE conn[j]]
        /\ down' = d3
  /\ UNCHANGED <<up, clientVars, envVars, histVars>>

\* The connection is closed, but its participant stays a member and nobody
\* is told (a grace period).
CloseHandlingLazy(k, reason) ==
  /\ registry' = registry
  /\ conn' = [conn EXCEPT ![k].st = "CLOSED"]
  /\ up' = [up EXCEPT ![k] = <<>>]
  /\ down' = down

\* CLOSING/ACTIVE -> CLOSED: the relay calls registry leave() for the
\* connection's participant id, then broadcasts a leave notification to the
\* remaining members.
CloseHandling(k, reason) ==
  LET room == conn[k].room
      p == conn[k].pid
      reg2 == RegLeave(registry, room, p)
  IN /\ registry' = reg2
     /\ conn' = [conn EXCEPT ![k].st = "CLOSED"]
     /\ up' = [up EXCEPT ![k] = <<>>]
     /\ down' = PushAll(down, ConnsOf(RegMembers(reg2, room)) \ {k},
                        UserLeft(p, reason))

\* The transport of a superseded connection closes.
RelayCloseSuperseded(k) ==
  /\ conn[k].st = "CLOSING"
  /\ CloseHandling(k, "superseded")
  /\ UNCHANGED <<clientVars, envVars, histVars>>

\* The transport of an ACTIVE connection was closed by its client.
RelayClose(k) ==
  /\ conn[k].st = "ACTIVE"
  /\ up[k] # <<>>
  /\ Head(up[k]).type = "close"
  /\ CloseHandling(k, "left")
  /\ UNCHANGED <<clientVars, envVars, histVars>>

Targeted == {"offer", "answer", "ice-candidate"}

\* An envelope for an unknown target is answered with an error.
RelayForwardStrict(k) ==
  /\ conn[k].st = "ACTIVE"
  /\ up[k] # <<>>
  /\ Head(up[k]).type \in Targeted
  /\ up' = [up EXCEPT ![k] = Tail(up[k])]
  /\ down' = IF RegConn(registry, conn[k].room, Head(up[k]).targetUserId) = {}
             THEN PushAll(down, {k}, Ctl("error", NoUser))
             ELSE PushAll(down, RegConn(registry, conn[k].room, Head(up[k]).targetUserId),
                          Head(up[k]))
  /\ log' = IF RegConn(registry, conn[k].room, Head(up[k]).targetUserId) = {}
            THEN Logged(Entry("unknown-target", Head(up[k]).type, conn[k].pid, k, <<>>))
            ELSE log
  /\ UNCHANGED <<conn, registry, clientVars, envVars, nOffer, nAnswer, relLog,
                 answerDropped, asyncVars, logging>>

\* ACTIVE: offer/answer/ice_candidate is forwarded unmodified to the
\* connection registered for its target in the sender's room, or dropped
\* when there is none.
RelayForward(k) ==
  /\ conn[k].st = "ACTIVE"
  /\ up[k] # <<>>
  /\ Head(up[k]).type \in Targeted
  /\ up' = [up EXCEPT ![k] = Tail(up[k])]
  /\ down' = PushAll(down, RegConn(registry, conn[k].room, Head(up[k]).targetUserId),
                     Head(up[k]))
  /\ log' = IF RegConn(registry, conn[k].room, Head(up[k]).targetUserId) = {}
            THEN Logged(Entry("unknown-target", Head(up[k]).type, conn[k].pid, k, <<>>))
            ELSE log
  /\ UNCHANGED <<conn, registry, clientVars, envVars, nOffer, nAnswer, relLog,
                 answerDropped, asyncVars, logging>>

\* A frame the relay does not understand closes the connection.
RelayDropCloses(k) ==
  /\ conn[k].st = "ACTIVE"
  /\ up[k] # <<>>
  /\ Head(up[k]).type \notin Targeted \cup {"close", "ping"}
  /\ CloseHandling(k, "protocol")
  /\ log' = Logged(Entry("dropped-by-relay", Head(up[k]).type, conn[k].pid, k, <<>>))
  /\ UNCHANGED <<clientVars, envVars, nOffer, nAnswer, relLog,
                 answerDropped, asyncVars, logging>>

\* ACTIVE: an envelope of a type the relay does not route (client_ready) is
\* dropped; the connection stays open.
RelayDrop(k) ==
  /\ conn[k].st = "ACTIVE"
  /\ up[k] # <<>>
  /\ Head(up[k]).type \notin Targeted \cup {"close", "ping"}
  /\ up' = [up EXCEPT ![k] = Tail(up[k])]
  /\ log' = Logged(Entry("dropped-by-relay", Head(up[k]).type, conn[k].pid, k, <<>>))
  /\ UNCHANGED <<conn, registry, down, clientVars, envVars, nOffer, nAnswer, relLog,
                 answerDropped, asyncVars, logging>>

\* ------------------------------------------------- RTCPeerConnection state
\* One RTCPeerConnection: id (0 = no entry in peersRef), signalingState,
\* iceConnectionState, remote = the connection whose description is the
\* remoteDescription (0 = null), local = a local description is set, pend =
\* the asynchronous call the hook is awaiting on it, arg = the description
\* that call is applying, seen/cands = candidates received / added (history
\* of handleIceCandidate), ncand = candidates this connection emitted.
NoPc ==
  [id |-> 0, sig |-> "closed", ice |-> "closed", remote |-> 0, local |-> FALSE,
   pend |-> "none", arg |-> 0, seen |-> <<>>, cands |-> <<>>, ncand |-> 0]
\* new RTCPeerConnection(ICE_SERVERS): signalingState stable, ICE state new.
NewPc(id, pend, arg) ==
  [id |-> id, sig |-> "stable", ice |-> "new", remote |-> 0, local |-> FALSE,
   pend |-> pend, arg |-> arg, seen |-> <<>>, cands |-> <<>>, ncand |-> 0]
NoPeers == [r \in Users |-> NoPc]

Range(q) == {q[i] : i \in 1 .. Len(q)}

\* peersRef.current of u becomes newPr: every connection that is closed on
\* the way (close() precedes every delete and every replacement) while a
\* call on it is still awaited leaves that call behind.
Orphaned(u, newPr) ==
  IF "links" \in logging
  THEN orphans \cup
         {[user |-> u, remote |-> r, id |-> peersRef[u][r].id, pend |-> peersRef[u][r].pend] :
            r \in {x \in Users : /\ peersRef[u][x].id # 0
                                 /\ newPr[x].id # peersRef[u][x].id
                                 /\ peersRef[u][x].pend # "none"}}
  ELSE orphans

\* The ids compared as the numbers they spell.
RECURSIVE NumVal(_)
NumVal(str) == IF str = <<>> THEN 0 ELSE 10 * NumVal(SubSeq(str, 1, Len(str) - 1)) + str[Len(str)]
IsInitiatorNumeric(me, other) == NumVal(me) < NumVal(other)

\* The tie-break of the hook: userId < other.
IsInitiator(me, other) == StrLess(me, other)

\* The keep-guard is left out: every call closes and replaces.
CreatePeerConnectionAlwaysNew(pr, ctr, target, isInitiator, hasOffer, offerPc) ==
  [pr |-> [pr EXCEPT ![target] =
             [id |-> ctr + 1, sig |-> "stable", ice |-> "new", remote |-> 0,
              local |-> FALSE,
              pend |-> IF isInitiator THEN "offer"
                       ELSE IF hasOffer THEN "setRemote" ELSE "none",
              arg |-> offerPc, seen |-> <<>>, cands |-> <<>>, ncand |-> 0]],
   ctr |-> ctr + 1]

\* createPeerConnection up to its first await: pr = peersRef.current of the
\* caller, ctr = connections constructed so far.  A live or offering
\* connection is kept when there is no incoming offer; otherwise the old
\* connection is closed and a new one registered, with its negotiation
\* (createOffer, or setRemoteDescription of the offer) pending.
CreatePeerConnection(pr, ctr, target, isInitiator, hasOffer, offerPc) ==
  LET existingPC == pr[target]
  IN IF /\ existingPC.id # 0
        /\ ~hasOffer
        /\ \/ existingPC.ice \in {"connected", "checking", "completed"}
           \/ existingPC.sig = "have-local-offer"
     THEN [pr |-> pr, ctr |-> ctr]
     ELSE [pr |-> [pr EXCEPT ![target] =
                     NewPc(ctr + 1,
                           IF isInitiator THEN "offer"
                           ELSE IF hasOffer THEN "setRemote" ELSE "none",
                           offerPc)],
           ctr |-> ctr + 1]

\* others.forEach(u => { if (userId < u.userId) createPeerConnection(u.userId, true) })
RECURSIVE InitiateAll(_, _, _)
InitiateAll(me, st, users) ==
  IF users = <<>> THEN st
  ELSE InitiateAll(me,
                   IF IsInitiator(me, Head(users))
                   THEN CreatePeerConnection(st.pr, st.ctr, Head(users), TRUE, FALSE, 0)
                   ELSE st,
                   Tail(users))

\* Every listed user is taken for dead: each poll re-offers.
RECURSIVE HealAllEager(_, _, _)
HealAllEager(me, st, users) ==
  IF users = <<>> THEN st
  ELSE HealAllEager(me,
                    IF Head(users) # me /\ IsInitiator(me, Head(users))
                    THEN CreatePeerConnectionAlwaysNew(st.pr, st.ctr, Head(users),
                                                       TRUE, FALSE, 0)
                    ELSE st,
                    Tail(users))

\* syncUsers' forEach: a listed user other than the caller whose connection
\* is missing or dead is re-offered by the smaller id.
RECURSIVE HealAll(_, _, _)
HealAll(me, st, users) ==
  IF users = <<>> THEN st
  ELSE LET u == Head(users)
           pc == st.pr[u]
           isDead == pc.id = 0 \/ pc.ice \in {"failed", "disconnected", "closed"}
       IN HealAll(me,
                  IF u # me /\ isDead /\ IsInitiator(me, u)
                  THEN CreatePeerConnection(st.pr, st.ctr, u, TRUE, FALSE, 0)
                  ELSE st,
                  Tail(users))

\* The listed users are appended without a look at the ids already there.
MergeUsersAll(prev, others) == prev \o others

\* setConnectedUsers(prev => [...prev, ...others not already in prev])
MergeUsers(prev, others) == prev \o SelectSeq(others, LAMBDA x : x \notin Range(prev))
\* setConnectedUsers(prev => prev.find(sender) ? prev : [...prev, sender])
AddUser(prev, id) == IF id \in Range(prev) THEN prev ELSE Append(prev, id)
\* setConnectedUsers(prev => prev.filter(u => u.userId !== id))
RemoveUser(prev, id) == SelectSeq(prev, LAMBDA x : x # id)

\* handleAnswer: no connection, or signalingState stable: ignored.  Otherwise
\* setRemoteDescription(answer) is called; it is accepted, and pending, only
\* on a connection with a local offer and no description being applied, and
\* rejected (caught and logged) otherwise.
HandleAnswerUnguarded(pc, ansPc) ==
  IF pc.id = 0 THEN pc
  ELSE [pc EXCEPT !.pend = "applyAnswer", !.arg = ansPc]
HandleAnswer(pc, ansPc) ==
  IF pc.id = 0 THEN pc
  ELSE IF pc.sig = "stable" THEN pc
  ELSE IF pc.sig = "have-local-offer" /\ pc.pend = "none"
       THEN [pc EXCEPT !.pend = "applyAnswer", !.arg = ansPc]
  ELSE pc

\* handleIceCandidate: added when the connection exists and has a remote
\* description, dropped otherwise.  seen records every candidate received
\* for the connection.
HandleIceCandidate(pc, cand) ==
  IF pc.id = 0 THEN pc
  ELSE IF pc.remote # 0
       THEN [pc EXCEPT !.seen = Append(@, cand), !.cands = Append(@, cand)]
  ELSE [pc EXCEPT !.seen = Append(@, cand)]

\* socketRef.current?.readyState === WebSocket.OPEN, then send(m).  What is
\* written to a transport the relay has closed goes nowhere.
SendVia(q, u, m) ==
  LET s == socketRef[u]
  IN IF s # 0 /\ sockState[s] = "OPEN" /\ conn[s].st # "CLOSED" /\ ~conn[s].cut
     THEN [q EXCEPT ![s] = Append(@, m)]
     ELSE q
CanSend(u) == socketRef[u] # 0 /\ sockState[socketRef[u]] = "OPEN"

\* ------------------------------------------------------ useWebRTC: join/leave
\* The hook's roomId parameter (one VoiceChatProvider per group).
RoomId(u) == "r1"

FreeConns == {j \in ConnIds : conn[j].st = "FREE"}

\* joinVoice with the microphone granted (the Join button is rendered only
\* while !isConnected): keep the stream, connectSocket(), setIsConnected(true),
\* setConnectedUsers([self]).
JoinVoice(u) ==
  /\ joinsLeft[u] > 0
  /\ ~isConnected[u]
  /\ FreeConns # {}
  /\ LET k == CHOOSE j \in FreeConns : \A i \in FreeConns : j <= i
     IN /\ conn' = [conn EXCEPT ![k] = [st |-> "CONNECTING", pid |-> u, room |-> RoomId(u),
                                         idle |-> 0, cut |-> FALSE]]
        /\ sockState' = [sockState EXCEPT ![k] = "CONNECTING"]
        /\ socketRef' = [socketRef EXCEPT ![u] = k]
  /\ joinsLeft' = [joinsLeft EXCEPT ![u] = @ - 1]
  /\ localStream' = [localStream EXCEPT ![u] = TRUE]
  /\ isConnected' = [isConnected EXCEPT ![u] = TRUE]
  /\ connectedUsers' = [connectedUsers EXCEPT ![u] = <<u>>]
  /\ relLog' = [relLog EXCEPT ![u] = <<>>]
  /\ UNCHANGED <<registry, up, down, peersRef, peers, pcCtr, poll, timers,
                 pollsLeft, dropsLeft, nOffer, nAnswer, answerDropped, asyncVars, logVars>>

\* socket.onopen, once the relay has accepted the connection: client_ready is
\* sent on socketRef.current.
SocketOpen(k) ==
  /\ sockState[k] = "CONNECTING"
  /\ conn[k].st \in {"ACTIVE", "CLOSING", "CLOSED"}
  /\ sockState' = [sockState EXCEPT ![k] = "OPEN"]
  /\ LET u == conn[k].pid
         s == socketRef[u]
     IN up' = IF s # 0 /\ sockState'[s] = "OPEN" /\ conn[s].st # "CLOSED"
              THEN [up EXCEPT ![s] = Append(@, Ctl("client_ready", u))]
              ELSE up
  /\ UNCHANGED <<conn, registry, down, socketRef, localStream, isConnected,
                 connectedUsers, peersRef, peers, pcCtr, poll, timers, envVars, histVars>>

\* The releases of leaveVoice, in the order the statements run: the tracks
\* of the local stream, the control socket, the peer connections.
ReleaseOrder(hasStream, hasSocket, hasPcs) ==
  (IF hasStream THEN <<"tracks">> ELSE <<>>)
  \o (IF hasSocket THEN <<"socket">> ELSE <<>>)
  \o (IF hasPcs THEN <<"pcs">> ELSE <<>>)

\* leaveVoice (the Leave button is rendered only while isConnected).
LeaveVoice(u) ==
  /\ isConnected[u]
  /\ LET k == socketRef[u]
     IN /\ sockState' = IF k # 0 THEN [sockState EXCEPT ![k] = "CLOSED"] ELSE sockState
        /\ up' = IF /\ k # 0 /\ sockState[k] # "CLOSED" /\ ~conn[k].cut
                    /\ conn[k].st \in {"CONNECTING", "ACTIVE"}
                 THEN [up EXCEPT ![k] = Append(@, CloseEvt)]
                 ELSE up
        /\ down' = IF k # 0 THEN [down EXCEPT ![k] = <<>>] ELSE down
        /\ relLog' = [relLog EXCEPT ![u] =
                        ReleaseOrder(localStream[u], k # 0,
                                     \E r \in Users : peersRef[u][r].id # 0)]
  /\ localStream' = [localStream EXCEPT ![u] = FALSE]
  /\ socketRef' = [socketRef EXCEPT ![u] = 0]
  /\ peersRef' = [peersRef EXCEPT ![u] = NoPeers]
  /\ peers' = [peers EXCEPT ![u] = {}]
  /\ connectedUsers' = [connectedUsers EXCEPT ![u] = <<>>]
  /\ isConnected' = [isConnected EXCEPT ![u] = FALSE]
  /\ orphans' = Orphaned(u, NoPeers)
  /\ UNCHANGED <<conn, registry, pcCtr, poll, timers, envVars, nOffer, nAnswer,
                 answerDropped, joining, logVars>>

\* ------------------------------------------------- useWebRTC: socket.onmessage
\* Every connection is closed and removed, not only the one of id.
CloseAll(pr, id) == [r \in DOMAIN pr |-> NoPc]

\* handleUserLeft(id) on peersRef.current.
CloseAndDelete(pr, id) == [pr EXCEPT ![id] = NoPc]

\* The types socket.onmessage acts on or returns from by name (and the
\* transport's own close event).
ClientTypes ==
  {"pong", "existing-users", "user-joined", "user-left", "offer", "answer",
   "ice-candidate", "close"}

\* One message event of an OPEN socket, up to the handler's first await.
Deliver(k) ==
  /\ sockState[k] = "OPEN"
  /\ down[k] # <<>>
  /\ LET m == Head(down[k])
         u == conn[k].pid
         t == m.type
         s == m.userId
         st0 == [pr |-> peersRef[u], ctr |-> pcCtr[u]]
         own == t # "existing-users" /\ s = u
         st1 == CASE t = "existing-users" -> InitiateAll(u, st0, m.users)
                  [] own -> st0
                  [] t = "user-joined" ->
                       IF IsInitiator(u, s)
                       THEN CreatePeerConnection(st0.pr, st0.ctr, s, TRUE, FALSE, 0)
                       ELSE st0
                  [] t = "user-left" -> [st0 EXCEPT !.pr = CloseAndDelete(@, s)]
                  [] t = "offer" -> CreatePeerConnection(st0.pr, st0.ctr, s, FALSE, TRUE, m.pc)
                  [] t = "answer" -> [st0 EXCEPT !.pr[s] = HandleAnswer(@, m.pc)]
                  [] t = "ice-candidate" ->
                       [st0 EXCEPT !.pr[s] = HandleIceCandidate(@, <<m.pc, m.n>>)]
                  [] OTHER -> st0
         cu == connectedUsers[u]
         cu1 == CASE t = "existing-users" -> MergeUsers(cu, m.users)
                  [] own -> cu
                  [] t \in {"user-joined", "offer"} -> AddUser(cu, s)
                  [] t = "user-left" -> RemoveUser(cu, s)
                  [] OTHER -> cu
     IN /\ peersRef' = [peersRef EXCEPT ![u] = st1.pr]
        /\ pcCtr' = [pcCtr EXCEPT ![u] = st1.ctr]
        /\ connectedUsers' = [connectedUsers EXCEPT ![u] = cu1]
        /\ peers' = IF ~own /\ t = "user-left"
                    THEN [peers EXCEPT ![u] = @ \ {s}] ELSE peers
        /\ sockState' = IF t = "close" THEN [sockState EXCEPT ![k] = "CLOSED"] ELSE sockState
        /\ answerDropped' =
             IF ~own /\ t = "answer"
                /\ (st0.pr[s].id = 0 \/ st0.pr[s].sig # "have-local-offer")
             THEN answerDropped \cup {u} ELSE answerDropped
        /\ poll' = IF ~own /\ t = "user-left" /\ poll[u].live
                   THEN [poll EXCEPT ![u].left = @ \cup {s}] ELSE poll
  /\ down' = [down EXCEPT ![k] = Tail(@)]
  /\ orphans' = Orphaned(conn[k].pid, peersRef'[conn[k].pid])
  /\ log' = IF Head(down[k]).type \in ClientTypes THEN log
            ELSE Logged(Entry("ignored-by-client", Head(down[k]).type, conn[k].pid, k, <<>>))
  /\ UNCHANGED <<conn, registry, up, socketRef, localStream, isConnected,
                 timers, envVars, nOffer, nAnswer, relLog, joining, logging>>

\* ---------------------------------------- createPeerConnection after its awaits
Bump(cnt, u, r) == [cnt EXCEPT ![<<u, r>>] = @ + 1]

\* createOffer and setLocalDescription(offer) have resolved: the offer is
\* sent if the socket is OPEN.
OfferReady(u, r) ==
  /\ peersRef[u][r].id # 0
  /\ peersRef[u][r].pend = "offer"
  /\ peersRef' = [peersRef EXCEPT ![u][r] =
                    [@ EXCEPT !.sig = "have-local-offer", !.local = TRUE, !.pend = "none"]]
  /\ up' = SendVia(up, u, Env("offer", u, r, peersRef[u][r].id, 0, 0, <<>>, ""))
  /\ nOffer' = IF CanSend(u) THEN Bump(nOffer, u, r) ELSE nOffer
  /\ UNCHANGED <<conn, registry, down, sockState, socketRef, localStream, isConnected,
                 connectedUsers, peers, pcCtr, poll, timers, envVars, nAnswer, relLog,
                 answerDropped, asyncVars, logVars>>

\* setRemoteDescription(incomingOffer) has resolved; ontrack delivers the
\* remote stream.
RemoteOfferSet(u, r) ==
  /\ peersRef[u][r].id # 0
  /\ peersRef[u][r].pend = "setRemote"
  /\ peersRef' = [peersRef EXCEPT ![u][r] =
                    [@ EXCEPT !.sig = "have-remote-offer", !.remote = peersRef[u][r].arg,
                              !.pend = "answer"]]
  /\ peers' = [peers EXCEPT ![u] = @ \cup {r}]
  /\ UNCHANGED <<relayVars, sockState, socketRef, localStream, isConnected,
                 connectedUsers, pcCtr, poll, timers, envVars, histVars>>

\* createAnswer and setLocalDescription(answer) have resolved: the answer is
\* sent if the socket is OPEN.
AnswerReady(u, r) ==
  /\ peersRef[u][r].id # 0
  /\ peersRef[u][r].pend = "answer"
  /\ peersRef' = [peersRef EXCEPT ![u][r] =
                    [@ EXCEPT !.sig = "stable", !.local = TRUE, !.pend = "none"]]
  /\ up' = SendVia(up, u, Env("answer", u, r, peersRef[u][r].id,
                              peersRef[u][r].remote, 0, <<>>, ""))
  /\ nAnswer' = IF CanSend(u) THEN Bump(nAnswer, u, r) ELSE nAnswer
  /\ UNCHANGED <<conn, registry, down, sockState, socketRef, localStream, isConnected,
                 connectedUsers, peers, pcCtr, poll, timers, envVars, nOffer, relLog,
                 answerDropped, asyncVars, logVars>>

\* handleAnswer's setRemoteDescription(answer) has resolved.
AnswerApplied(u, r) ==
  /\ peersRef[u][r].id # 0
  /\ peersRef[u][r].pend = "applyAnswer"
  /\ peersRef' = [peersRef EXCEPT ![u][r] =
                    [@ EXCEPT !.sig = "stable", !.remote = peersRef[u][r].arg, !.pend = "none"]]
  /\ peers' = [peers EXCEPT ![u] = @ \cup {r}]
  /\ UNCHANGED <<relayVars, sockState, socketRef, localStream, isConnected,
                 connectedUsers, pcCtr, poll, timers, envVars, histVars>>

\* ------------------------------------------------ VoiceChatProvider: the poll
\* left is history: the users whose user-left this client has processed since
\* the response in flight was fetched.
NoPoll == [users |-> <<>>, conn |-> FALSE, live |-> FALSE, left |-> {}]

\* fetchUsers' GET /voice/groups/{groupId}/users is answered with the room's
\* snapshot.  The closure keeps the isConnected of the render that started
\* it.  (A response fetched while not connected only sets the provider's own
\* activeUsers list.)
FetchUsers(u) ==
  /\ isConnected[u]
  /\ ~poll[u].live
  /\ poll' = [poll EXCEPT ![u] =
                [users |-> Snapshot(registry, RoomId(u)), conn |-> isConnected[u],
                 live |-> TRUE, left |-> {}]]
  /\ UNCHANGED <<relayVars, sockState, socketRef, localStream, isConnected,
                 connectedUsers, peersRef, peers, pcCtr, timers, joinsLeft, dropsLeft,
                 histVars>>

\* A poll out of a budget of polls.
PollFetch(u) ==
  /\ pollsLeft > 0
  /\ FetchUsers(u)
  /\ pollsLeft' = pollsLeft - 1

\* setInterval(fetchUsers, 5000): the poll of every 5 s, without end.
PollTick(u) ==
  /\ FetchUsers(u)
  /\ UNCHANGED pollsLeft

\* syncUsers(serverUsers): merge into connectedUsers, then heal.
SyncUsers(u, serverUsers) ==
  LET st1 == HealAll(u, [pr |-> peersRef[u], ctr |-> pcCtr[u]], serverUsers)
  IN /\ connectedUsers' = [connectedUsers EXCEPT ![u] = MergeUsers(@, serverUsers)]
     /\ peersRef' = [peersRef EXCEPT ![u] = st1.pr]
     /\ pcCtr' = [pcCtr EXCEPT ![u] = st1.ctr]

\* The response arrives: if (isConnected) syncUsers(serverUsers).
PollApply(u) ==
  /\ poll[u].live
  /\ poll' = [poll EXCEPT ![u] = NoPoll]
  /\ IF poll[u].conn
     THEN SyncUsers(u, poll[u].users)
     ELSE UNCHANGED <<connectedUsers, peersRef, pcCtr>>
  /\ orphans' = Orphaned(u, peersRef'[u])
  /\ log' = IF poll[u].conn THEN Logged(Entry("poll", "", u, 0, poll[u].users)) ELSE log
  /\ UNCHANGED <<relayVars, sockState, socketRef, localStream, isConnected, peers,
                 timers, envVars, nOffer, nAnswer, relLog, answerDropped, joining,
                 logging>>

\* ------------------------------------------------------- the media transport
\* Both ends hold each other's description: the pair can carry media.
Matched(u, r) ==
  /\ peersRef[u][r].id # 0 /\ peersRef[r][u].id # 0
  /\ peersRef[u][r].sig = "stable" /\ peersRef[r][u].sig = "stable"
  /\ peersRef[u][r].remote = peersRef[r][u].id
  /\ peersRef[r][u].remote = peersRef[u][r].id

SetIce(u, r, state) == peersRef' = [peersRef EXCEPT ![u][r].ice = state]

\* addIceCandidate has given the connection a candidate of the connection
\* whose description is its remoteDescription.
HasCandidate(u, r) ==
  \E i \in DOMAIN peersRef[u][r].cands :
    peersRef[u][r].cands[i][1] = peersRef[u][r].remote

\* The other end's connection holds this one's description and one of its
\* candidates: its connectivity checks reach this connection.
IsChecked(u, r) ==
  /\ peersRef[r][u].id = peersRef[u][r].remote
  /\ peersRef[r][u].remote = peersRef[u][r].id
  /\ peersRef[r][u].local
  /\ HasCandidate(r, u)

\* oniceconnectionstatechange: checking, once both descriptions are set and
\* a remote candidate is known here or this connection is known at the
\* other end.
IceChecking(u, r) ==
  /\ peersRef[u][r].ice = "new"
  /\ peersRef[u][r].local /\ peersRef[u][r].remote # 0
  /\ HasCandidate(u, r) \/ IsChecked(u, r)
  /\ SetIce(u, r, "checking")
  /\ UNCHANGED <<relayVars, sockState, socketRef, localStream, isConnected,
                 connectedUsers, peers, pcCtr, poll, timers, envVars, histVars>>

\* oniceconnectionstatechange: connected (also back from disconnected).
IceConnected(u, r) ==
  /\ peersRef[u][r].ice \in {"checking", "disconnected"}
  /\ Matched(u, r)
  /\ SetIce(u, r, "connected")
  /\ UNCHANGED <<relayVars, sockState, socketRef, localStream, isConnected,
                 connectedUsers, peers, pcCtr, poll, timers, envVars, histVars>>

\* oniceconnectionstatechange: disconnected (the network drops the link, or
\* the other end is gone); the handler starts the 5 s timer.
IceDisconnected(u, r) ==
  /\ peersRef[u][r].ice = "connected"
  /\ dropsLeft > 0 \/ ~Matched(u, r)
  /\ SetIce(u, r, "disconnected")
  /\ timers' = timers \cup {<<u, r>>}
  /\ dropsLeft' = IF Matched(u, r) THEN dropsLeft - 1 ELSE dropsLeft
  /\ UNCHANGED <<relayVars, sockState, socketRef, localStream, isConnected,
                 connectedUsers, peers, pcCtr, poll, joinsLeft, pollsLeft, histVars>>

\* An answer made by u's connection is still on its way to r's offer.
AnswerUnderway(u, r) ==
  LET me == peersRef[u][r]
      pe == peersRef[r][u]
      isMine(m) == m.type = "answer" /\ m.userId = u /\ m.targetUserId = r /\ m.pc = me.id
  IN /\ pe.id # 0 /\ pe.id = me.remote /\ pe.sig = "have-local-offer"
     /\ \/ pe.pend = "applyAnswer" /\ pe.arg = me.id
        \/ \E k \in ConnIds : \/ \E i \in 1 .. Len(up[k]) : isMine(up[k][i])
                              \/ \E i \in 1 .. Len(down[k]) : isMine(down[k][i])

\* oniceconnectionstatechange: failed (the checks cannot succeed: the other
\* end holds no matching description and none is on its way; or a
\* disconnected link does not come back); the handler calls restartIce(),
\* which sends nothing by itself.
IceFailed(u, r) ==
  /\ \/ peersRef[u][r].ice = "checking" /\ ~Matched(u, r) /\ ~AnswerUnderway(u, r)
     \/ peersRef[u][r].ice = "disconnected"
  /\ SetIce(u, r, "failed")
  /\ UNCHANGED <<relayVars, sockState, socketRef, localStream, isConnected,
                 connectedUsers, peers, pcCtr, poll, timers, envVars, histVars>>

\* The 5 s timer: if the connection now registered for the target is
\* disconnected or failed, handleUserLeft(target).
TimerFire(u, r) ==
  /\ <<u, r>> \in timers
  /\ timers' = timers \ {<<u, r>>}
  /\ IF peersRef[u][r].ice \in {"disconnected", "failed"}
     THEN /\ peersRef' = [peersRef EXCEPT ![u] = CloseAndDelete(@, r)]
          /\ peers' = [peers EXCEPT ![u] = @ \ {r}]
          /\ connectedUsers' = [connectedUsers EXCEPT ![u] = RemoveUser(@, r)]
     ELSE UNCHANGED <<peersRef, peers, connectedUsers>>
  /\ orphans' = Orphaned(u, peersRef'[u])
  /\ UNCHANGED <<relayVars, sockState, socketRef, localStream, isConnected, pcCtr,
                 poll, envVars, nOffer, nAnswer, relLog, answerDropped, joining,
                 logVars>>

\* pc.onicecandidate with a candidate, after a local description is set: sent
\* if the socket is OPEN.
IceCandidate(u, r) ==
  /\ peersRef[u][r].id # 0
  /\ peersRef[u][r].local
  /\ peersRef[u][r].ncand < MaxCand
  /\ peersRef' = [peersRef EXCEPT ![u][r].ncand = @ + 1]
  /\ up' = SendVia(up, u, Env("ice-candidate", u, r, peersRef[u][r].id, 0,
                              peersRef[u][r].ncand + 1, <<>>, ""))
  /\ UNCHANGED <<conn, registry, down, sockState, socketRef, localStream, isConnected,
                 connectedUsers, peers, pcCtr, poll, timers, envVars, histVars>>

\* ------------------------------------------------------------ specifications
InitAll(joins, polls, drops, keepLog) ==
  /\ conn = [j \in ConnIds |-> [st |-> "FREE", pid |-> NoUser, room |-> "", idle |-> 0, cut |-> FALSE]]
  /\ registry = [r \in {} |-> <<>>]
  /\ up = [j \in ConnIds |-> <<>>]
  /\ down = [j \in ConnIds |-> <<>>]
  /\ sockState = [j \in ConnIds |-> "NONE"]
  /\ socketRef = [u \in Users |-> 0]
  /\ localStream = [u \in Users |-> FALSE]
  /\ isConnected = [u \in Users |-> FALSE]
  /\ connectedUsers = [u \in Users |-> <<>>]
  /\ peersRef = [u \in Users |-> NoPeers]
  /\ peers = [u \in Users |-> {}]
  /\ pcCtr = [u \in Users |-> 0]
  /\ poll = [u \in Users |-> NoPoll]
  /\ timers = {}
  /\ joinsLeft = joins
  /\ pollsLeft = polls
  /\ dropsLeft = drops
  /\ nOffer = [p \in Users \X Users |-> 0]
  /\ nAnswer = [p \in Users \X Users |-> 0]
  /\ relLog = [u \in Users |-> <<>>]
  /\ answerDropped = {}
  /\ joining = [u \in Users |-> 0]
  /\ orphans = {}
  /\ logging = keepLog
  /\ log = {}

\* The state after construction, without the log and with it.
InitWith(joins, polls, drops) == InitAll(joins, polls, drops, {})
InitLogged(joins, polls, drops) ==
  InitAll(joins, polls, drops, {"unknown-target", "dropped-by-relay", "ignored-by-client"})
InitPollLog(joins, polls, drops) == InitAll(joins, polls, drops, {"poll"})
InitLinks(joins, polls, drops) == InitAll(joins, polls, drops, {"links"})

Joins(low, high, third) ==
  [u \in Users |-> IF u = U10 THEN low ELSE IF u = U9 THEN high ELSE third]

RelayStep(k) ==
  \/ RelayAccept(k)
  \/ RelayClose(k)
  \/ RelayForward(k)
  \/ RelayDrop(k)

NegotiationStep(u, r) ==
  \/ OfferReady(u, r)
  \/ RemoteOfferSet(u, r)
  \/ AnswerReady(u, r)
  \/ AnswerApplied(u, r)

\* Spec: two users, the smaller id may leave and join again; no polling.
Init == InitWith(Joins(JoinsLow, JoinsHigh, 0), 0, 0)

Next ==
  \/ \E u \in Users : JoinVoice(u) \/ LeaveVoice(u)
  \/ \E k \in ConnIds : SocketOpen(k) \/ Deliver(k)
  \/ \E k \in ConnIds : RelayStep(k) \/ RelayCloseSuperseded(k)
  \/ \E u \in Users, r \in Users : NegotiationStep(u, r)

Spec == Init /\ [][Next]_vars

\* PollSpec: users join once each, with the presence poll running.
PollInit == InitWith(Joins(OneJoin, OneJoin, 0), MaxPolls, 0)

PollNext ==
  \/ \E u \in Users : JoinVoice(u) \/ LeaveVoice(u) \/ PollFetch(u) \/ PollApply(u)
  \/ \E k \in ConnIds : SocketOpen(k) \/ Deliver(k)
  \/ \E k \in ConnIds : RelayStep(k)
  \/ \E u \in Users, r \in Users : NegotiationStep(u, r)

PollSpec == PollInit /\ [][PollNext]_vars

\* ------------------------------------------------------------------ claims
\* The lexicographic order of the ids "10" < "9" < "91", written out.
LexRank(u) == CASE u = U10 -> 1 [] u = U9 -> 2 [] u = U91 -> 3

\* C1: whichever way two participants learn of each other (existing-users,
\* user-joined, poll sync), an offer is only ever prepared, outstanding or
\* sent from the lexicographically smaller id to the larger one.
C1_OnlySmallerIdOffers ==
  \A f \in Users, t \in Users :
    (\/ nOffer[<<f, t>>] > 0
     \/ peersRef[f][t].pend = "offer"
     \/ peersRef[f][t].sig = "have-local-offer")
    => LexRank(f) < LexRank(t)

\* Both users are in voice, know of each other, and "10" has sent "9" an offer.
C1_Witness ==
  /\ nOffer[<<U10, U9>>] > 0
  /\ U10 \in Range(connectedUsers[U9])
  /\ U9 \in Range(connectedUsers[U10])

\* Nothing is in flight: no envelope queued in either direction, no poll
\* response outstanding, no awaited call pending.
Quiescent ==
  /\ \A k \in ConnIds : up[k] = <<>> /\ down[k] = <<>>
  /\ \A k \in ConnIds : sockState[k] # "CONNECTING"
  /\ \A u \in Users : ~poll[u].live
  /\ \A u \in Users, r \in Users : peersRef[u][r].pend = "none"

\* The participant is in voice over an open, ACTIVE control connection.
ActiveUser(u) ==
  /\ isConnected[u]
  /\ socketRef[u] # 0
  /\ sockState[socketRef[u]] = "OPEN"
  /\ conn[socketRef[u]].st = "ACTIVE"

\* C3: once everything in flight has been delivered, the connectedUsers of
\* every ACTIVE participant lists exactly the members the Registry holds for
\* the room.
C3_MembershipConverges ==
  Quiescent =>
    \A u \in Users :
      ActiveUser(u) =>
        Range(connectedUsers[u]) = PidSet(RegMembers(registry, RoomId(u)))

\* C4: after an identity has joined twice there is exactly one ACTIVE
\* connection for it, and that connection stays the registered member of its
\* room: the close handling of the superseded connection does not remove it.
C4_SecondConnectionStays ==
  /\ \A j \in ConnIds, k \in ConnIds :
       (/\ conn[j].st = "ACTIVE" /\ conn[k].st = "ACTIVE"
        /\ conn[j].pid = conn[k].pid /\ conn[j].room = conn[k].room) => j = k
  /\ \A k \in ConnIds :
       conn[k].st = "ACTIVE" => RegConn(registry, conn[k].room, conn[k].pid) = {k}

\* C7: the Registry holds no entry for a room without members.
C7_NoEmptyRoom == \A r \in DOMAIN registry : registry[r] # <<>>

\* The last member has left: connections were closed and no room is held.
C7_Witness ==
  /\ DOMAIN registry = {}
  /\ \E k \in ConnIds : conn[k].st = "CLOSED"
  /\ \A k \in ConnIds : conn[k].st \in {"FREE", "CLOSED"}

\* The next message event of connection k is an answer for a link that is
\* missing or has no outstanding local offer.
StaleAnswerAtHead(k) ==
  /\ sockState[k] = "OPEN"
  /\ down[k] # <<>>
  /\ Head(down[k]).type = "answer"
  /\ Head(down[k]).userId # conn[k].pid
  /\ LET pc == peersRef[conn[k].pid][Head(down[k]).userId]
     IN pc.id = 0 \/ pc.sig # "have-local-offer"

\* C5: an answer received for a link that is connected (stable), has no
\* outstanding local offer, or does not exist is dropped: no description is
\* applied, no link, stream, member list or outgoing envelope changes.
C5_DuplicateAnswerDropped ==
  [][\A k \in ConnIds :
       (StaleAnswerAtHead(k) /\ Deliver(k))
       => UNCHANGED <<peersRef, peers, connectedUsers, pcCtr, up>>]_vars

\* "10" has received such an answer while its link to "9" was there and stable.
C5_Witness ==
  /\ U10 \in answerDropped
  /\ peersRef[U10][U9].id # 0
  /\ peersRef[U10][U9].sig = "stable"

\* C9: a shutdown releases the peer connections before the control socket,
\* and leaves no local capture track running.
C9_LinksBeforeSocket ==
  \A u \in Users :
    /\ \A i \in DOMAIN relLog[u], j \in DOMAIN relLog[u] :
         (relLog[u][i] = "pcs" /\ relLog[u][j] = "socket") => i < j
    /\ ~isConnected[u] => ~localStream[u]

\* IceSpec: users join once each; every connection emits ICE candidates.
IceInit == InitWith(Joins(OneJoin, OneJoin, 0), 0, 0)

IceNext ==
  \/ \E u \in Users : JoinVoice(u) \/ LeaveVoice(u)
  \/ \E k \in ConnIds : SocketOpen(k) \/ Deliver(k)
  \/ \E k \in ConnIds : RelayStep(k)
  \/ \E u \in Users, r \in Users : NegotiationStep(u, r) \/ IceCandidate(u, r)

IceSpec == IceInit /\ [][IceNext]_vars

\* C6: a candidate received for a link before its remote description is set
\* is kept and added, in arrival order, once the description is set: on a
\* link with a remote description, the candidates added are the candidates
\* received.
C6_CandidatesBuffered ==
  \A u \in Users, r \in Users :
    (peersRef[u][r].id # 0 /\ peersRef[u][r].remote # 0)
    => peersRef[u][r].cands = peersRef[u][r].seen

\* ScenarioSpec: "10" (alice) joins the empty room and is connected to the
\* relay before "9" (bob) joins; nobody else joins, the network drops no
\* connected link, and alice leaves only once both links are connected.
ScenarioInit == InitWith(Joins(OneJoin, OneJoin, 0), 0, 0)

BothConnected ==
  /\ peersRef[U10][U9].ice = "connected"
  /\ peersRef[U9][U10].ice = "connected"

AliceJoins == JoinVoice(U10)
BobJoins == ActiveUser(U10) /\ JoinVoice(U9)
AliceLeaves == BothConnected /\ LeaveVoice(U10)

IceStep(u, r) ==
  \/ IceCandidate(u, r)
  \/ IceChecking(u, r)
  \/ IceConnected(u, r)
  \/ IceDisconnected(u, r)
  \/ IceFailed(u, r)
  \/ TimerFire(u, r)

ScenarioNext ==
  \/ AliceJoins \/ BobJoins \/ AliceLeaves
  \/ \E u \in Users : PollTick(u) \/ PollApply(u)
  \/ \E k \in ConnIds : SocketOpen(k) \/ Deliver(k)
  \/ \E k \in ConnIds : RelayStep(k)
  \/ \E u \in Users, r \in Users : NegotiationStep(u, r) \/ IceStep(u, r)

\* Everything but the users' own decisions (join, leave) happens in time:
\* the relay handles what it receives, the browser delivers events and
\* resolves promises, the ICE agent runs, the 5 s poll and timer fire.
ProgramFairness ==
  /\ \A k \in ConnIds :
       WF_vars(RelayStep(k)) /\ WF_vars(SocketOpen(k)) /\ WF_vars(Deliver(k))
  /\ \A u \in Users : WF_vars(PollApply(u))
  /\ \A u \in Users, r \in Users : WF_vars(NegotiationStep(u, r))

IceFairness ==
  \A u \in Users, r \in Users :
    /\ WF_vars(IceCandidate(u, r)) /\ WF_vars(IceChecking(u, r))
    /\ WF_vars(IceConnected(u, r)) /\ WF_vars(IceDisconnected(u, r))
    /\ WF_vars(TimerFire(u, r))

ScenarioSpec ==
  /\ ScenarioInit /\ [][ScenarioNext]_vars
  /\ ProgramFairness /\ IceFairness
  /\ \A u \in Users : WF_vars(PollTick(u))

\* A user-left envelope is still on its way to some connection.
LeavePending ==
  \E k \in ConnIds : \E i \in DOMAIN down[k] : down[k][i].type = "user-left"

\* C8: in the two-party scenario alice sends exactly one offer to bob and bob
\* exactly one answer to alice (and neither the reverse); once both are in
\* voice both links become connected; once alice has left, her leave is
\* delivered to bob and his link to her is closed.
C8_TwoPartyScenario ==
  /\ [](/\ nOffer[<<U10, U9>>] <= 1 /\ nOffer[<<U9, U10>>] = 0
        /\ nAnswer[<<U9, U10>>] <= 1 /\ nAnswer[<<U10, U9>>] = 0)
  /\ (isConnected[U10] /\ isConnected[U9])
       ~> (BothConnected /\ nOffer[<<U10, U9>>] = 1 /\ nAnswer[<<U9, U10>>] = 1)
  /\ (isConnected[U9] /\ ~isConnected[U10] /\ joinsLeft[U10] = 0)
       ~> (peersRef[U9][U10] = NoPc /\ ~LeavePending)

\* HangSpec: users join once each and may leave; the poll runs without end.
HangInit == InitWith(Joins(OneJoin, OneJoin, 0), 0, 0)

HangNext ==
  \/ \E u \in Users : JoinVoice(u) \/ LeaveVoice(u) \/ PollTick(u) \/ PollApply(u)
  \/ \E k \in ConnIds : SocketOpen(k) \/ Deliver(k)
  \/ \E k \in ConnIds : RelayStep(k)
  \/ \E u \in Users, r \in Users : NegotiationStep(u, r)

HangSpec ==
  /\ HangInit /\ [][HangNext]_vars
  /\ ProgramFairness
  /\ \A u \in Users : WF_vars(PollTick(u))

\* The link is negotiating: an offer or an answer is outstanding on it.
Negotiating(u, r) ==
  /\ peersRef[u][r].id # 0
  /\ peersRef[u][r].sig \in {"have-local-offer", "have-remote-offer"}

\* C10: a negotiating link of a participant who stays in voice does not stay
\* negotiating forever: it completes, is retried, or is given up.
C10_NoIndefiniteHang ==
  \A u \in Users, r \in Users :
    Negotiating(u, r) ~> (~Negotiating(u, r) \/ ~isConnected[u])

\* ------------------------------------------------------------- C11 .. C20
\* oniceconnectionstatechange: failed, because the media path to the other
\* end does not carry the connectivity checks; the handler calls
\* restartIce(), which sends nothing by itself.
IceCheckFails(u, r) ==
  /\ peersRef[u][r].ice = "checking"
  /\ dropsLeft > 0
  /\ SetIce(u, r, "failed")
  /\ dropsLeft' = dropsLeft - 1
  /\ UNCHANGED <<relayVars, sockState, socketRef, localStream, isConnected,
                 connectedUsers, peers, pcCtr, poll, timers, joinsLeft, pollsLeft,
                 histVars>>

\* RetrySpec: alice and bob join and stay; the media path between them never
\* connects, and fails the checks of up to MaxDrops connections; the poll
\* runs without end.
RetryInit == InitWith(Joins(OneJoin, OneJoin, 0), 0, MaxDrops)

RetryNext ==
  \/ AliceJoins \/ BobJoins
  \/ \E u \in Users : PollTick(u) \/ PollApply(u)
  \/ \E k \in ConnIds : SocketOpen(k) \/ Deliver(k)
  \/ \E k \in ConnIds : RelayAccept(k) \/ RelayForward(k) \/ RelayDrop(k)
  \/ \E u \in Users, r \in Users :
       \/ NegotiationStep(u, r)
       \/ IceCandidate(u, r) \/ IceChecking(u, r)
       \/ IceCheckFails(u, r) \/ IceFailed(u, r)

RetrySpec == RetryInit /\ [][RetryNext]_vars

\* C11: toward a peer whose link keeps failing, the first offer is followed
\* by at most one re-offer.
C11_AtMostOneReoffer ==
  \A u \in Users, r \in Users : nOffer[<<u, r>>] <= 2

\* The poll response about to be applied by u was fetched before a
\* user-left for r that u has processed since.
StaleFor(u, r) ==
  /\ poll[u].live /\ poll[u].conn
  /\ r \in poll[u].left
  /\ r \in Range(poll[u].users)

\* C12: applying a poll response that is older than a leave push already
\* processed changes neither the membership view nor the peer connections:
\* the departed participant is not re-added and gets no new connection.
C12_StalePollRejected ==
  [][\A u \in Users :
       ((\E r \in Users : StaleFor(u, r)) /\ PollApply(u))
       => UNCHANGED <<connectedUsers, peersRef, pcCtr>>]_vars

\* TrioSpec: "10" joins, then "9", then "91"; "10" and "9" may leave, and
\* "10" may join again while a connection is free.
TrioInit == InitWith(Joins(JoinsLow, OneJoin, OneJoin), 0, 0)

FirstJoins == JoinVoice(U10)
SecondJoins == joinsLeft[U10] < JoinsLow /\ JoinVoice(U9)
ThirdJoins == joinsLeft[U9] = 0 /\ JoinVoice(U91)

TrioNext ==
  \/ FirstJoins \/ SecondJoins \/ ThirdJoins
  \/ LeaveVoice(U10) \/ LeaveVoice(U9)
  \/ \E k \in ConnIds : SocketOpen(k) \/ Deliver(k)
  \/ \E k \in ConnIds : RelayStep(k) \/ RelayCloseSuperseded(k)
  \/ \E u \in Users, r \in Users : NegotiationStep(u, r)

TrioSpec == TrioInit /\ [][TrioNext]_vars

\* The connections whose queue of deliveries changes in this step.
Touched == {j \in ConnIds : down'[j] # down[j]}

\* The envelope just put on connection j's queue is a room_state.
GotRoomState(j) ==
  /\ Len(down'[j]) > Len(down[j])
  /\ down'[j][Len(down'[j])].type = "existing-users"

IsPrefix(p, q) == Len(p) <= Len(q) /\ SubSeq(q, 1, Len(p)) = p

\* C14: the relay takes the envelopes of a connection in the order received
\* and puts what it delivers to a connection behind everything it put there
\* before, so no two envelopes for one target change order.
C14_OrderPreserved ==
  [][\A k \in ConnIds :
       /\ (RelayStep(k) \/ RelayCloseSuperseded(k)) =>
            \A j \in ConnIds : IsPrefix(down[j], down'[j])
       /\ (RelayForward(k) \/ RelayDrop(k)) => up'[k] = Tail(up[k])
       /\ RelayForward(k) =>
            \A j \in Touched : down'[j] = Append(down[j], Head(up[k]))]_vars

\* An offer has been forwarded to a connection behind an envelope that was
\* still waiting there.
C14_Witness ==
  \E j \in ConnIds :
    /\ Len(down[j]) >= 2
    /\ down[j][Len(down[j])].type = "offer"
    /\ conn[j].st = "ACTIVE"

\* ------------------------------------------------------------- heartbeat
\* The network path of an open connection is lost without a close: what
\* either end sends from now on arrives nowhere.
NetworkCut(k) ==
  /\ conn[k].st = "ACTIVE"
  /\ sockState[k] = "OPEN"
  /\ ~conn[k].cut
  /\ conn' = [conn EXCEPT ![k].cut = TRUE]
  /\ down' = [down EXCEPT ![k] = <<>>]
  /\ UNCHANGED <<registry, up, clientVars, envVars, histVars>>

\* The ping timer of connection k's client fires: the interval started in
\* socket.onopen sends a ping if socketRef.current is OPEN.
PingOf(q, k) ==
  IF sockState[k] = "OPEN" /\ socketRef[conn[k].pid] = k
  THEN SendVia(q, conn[k].pid, Ctl("ping", conn[k].pid))
  ELSE q

RECURSIVE PingAll(_, _)
PingAll(q, ks) ==
  IF ks = {} THEN q
  ELSE LET k == CHOOSE j \in ks : TRUE IN PingAll(PingOf(q, k), ks \ {k})

\* One ping interval (30 s) passes: every client timer fires, and the
\* relay's inactivity timers advance.  An interval is long against the
\* handling of a message: the pings and pongs of the interval before have
\* been handled, and every accepted socket has had its open event.
PingInterval ==
  /\ \A k \in ConnIds :
       /\ \A i \in DOMAIN up[k] : up[k][i].type # "ping"
       /\ \A i \in DOMAIN down[k] : down[k][i].type # "pong"
       /\ conn[k].st = "ACTIVE" => sockState[k] # "CONNECTING"
  /\ \E k \in ConnIds : conn[k].st = "ACTIVE"
  /\ up' = PingAll(up, ConnIds)
  /\ conn' = [k \in ConnIds |->
                IF conn[k].st = "ACTIVE" /\ conn[k].idle < PingWindow
                THEN [conn[k] EXCEPT !.idle = @ + 1] ELSE conn[k]]
  /\ UNCHANGED <<registry, down, clientVars, envVars, histVars>>

\* The reset is forgotten.
RelayPingNoReset(k) ==
  /\ conn[k].st = "ACTIVE"
  /\ up[k] # <<>>
  /\ Head(up[k]).type = "ping"
  /\ up' = [up EXCEPT ![k] = Tail(up[k])]
  /\ down' = PushAll(down, {k}, Ctl("pong", NoUser))
  /\ UNCHANGED <<conn, registry, clientVars, envVars, histVars>>

\* ACTIVE: a ping resets the inactivity timer of its connection and is
\* answered with a pong; it is not forwarded.
RelayPing(k) ==
  /\ conn[k].st = "ACTIVE"
  /\ up[k] # <<>>
  /\ Head(up[k]).type = "ping"
  /\ up' = [up EXCEPT ![k] = Tail(up[k])]
  /\ conn' = [conn EXCEPT ![k].idle = 0]
  /\ down' = PushAll(down, {k}, Ctl("pong", NoUser))
  /\ UNCHANGED <<registry, clientVars, envVars, histVars>>

\* No ping within the window: the relay forces the connection to CLOSING
\* and runs the close handling (registry leave, leave broadcast).
RelayTimeout(k) ==
  /\ conn[k].st = "ACTIVE"
  /\ conn[k].idle >= PingWindow
  /\ CloseHandling(k, "timeout")
  /\ UNCHANGED <<clientVars, envVars, histVars>>

\* HeartbeatSpec: two users join and stay; a network path may be lost.
HeartbeatInit == InitWith(Joins(OneJoin, OneJoin, 0), 0, 0)

HeartbeatNext ==
  \/ \E u \in Users : JoinVoice(u)
  \/ \E k \in ConnIds : SocketOpen(k) \/ Deliver(k) \/ NetworkCut(k)
  \/ \E k \in ConnIds : RelayAccept(k) \/ RelayForward(k) \/ RelayDrop(k)
  \/ \E k \in ConnIds : RelayPing(k) \/ RelayTimeout(k)
  \/ \E u \in Users, r \in Users : NegotiationStep(u, r)
  \/ PingInterval

HeartbeatSpec ==
  /\ HeartbeatInit /\ [][HeartbeatNext]_vars
  /\ ProgramFairness
  /\ \A k \in ConnIds : WF_vars(RelayPing(k)) /\ WF_vars(RelayTimeout(k))
  /\ WF_vars(PingInterval)

\* Every remaining member's connection that still has a path has just been
\* told that p left.
LeaveToldTo(p) ==
  \A j \in {i \in ConnsOf(RegMembers(registry', "r1")) :
              ~conn[i].cut /\ sockState[i] # "CLOSED"} :
    /\ Len(down'[j]) = Len(down[j]) + 1
    /\ down'[j][Len(down'[j])].type = "user-left"
    /\ down'[j][Len(down'[j])].userId = p

\* C15: a connection whose pings stop arriving is closed by the relay,
\* removed from the Registry and reported to the remaining members; the
\* inactivity timer closes no connection whose pings arrive; a ping is
\* answered on its own connection only and appears on no other.
C15_HeartbeatTimeout ==
  /\ \A k \in ConnIds :
       (conn[k].cut /\ conn[k].st = "ACTIVE")
         ~> (conn[k].st = "CLOSED" /\ k \notin ConnsOf(RegMembers(registry, "r1")))
  /\ [][\A k \in ConnIds :
          /\ RelayTimeout(k) => (conn[k].cut /\ LeaveToldTo(conn[k].pid))
          /\ RelayPing(k) => \A j \in ConnIds \ {k} : down'[j] = down[j]]_vars
  /\ [](\A j \in ConnIds : \A i \in DOMAIN down[j] : down[j][i].type # "ping")

\* The path of one member was lost, the relay has closed its connection, and
\* the other member, whose pings arrive, is still ACTIVE and has been told.
C15_Witness ==
  \E k \in ConnIds, j \in ConnIds :
    /\ conn[k].cut /\ conn[k].st = "CLOSED"
    /\ conn[j].st = "ACTIVE" /\ ~conn[j].cut
    /\ \E i \in DOMAIN down[j] :
         down[j][i].type = "user-left" /\ down[j][i].reason = "timeout"

\* ------------------------------------------------- control connection drops
\* The transport of an open control connection drops without a local leave:
\* the relay sees the close, the browser fires socket.onerror / onclose.
\* Both handlers only log: no state of the hook changes.
SocketDrops(k) ==
  /\ sockState[k] = "OPEN"
  /\ conn[k].st = "ACTIVE"
  /\ socketRef[conn[k].pid] = k
  /\ sockState' = [sockState EXCEPT ![k] = "CLOSED"]
  /\ up' = [up EXCEPT ![k] = Append(@, CloseEvt)]
  /\ down' = [down EXCEPT ![k] = <<>>]
  /\ UNCHANGED <<conn, registry, socketRef, localStream, isConnected, connectedUsers,
                 peersRef, peers, pcCtr, poll, timers, envVars, histVars>>

\* DropSpec: two users join once each and never leave; a control connection
\* may drop.
DropInit == InitWith(Joins(OneJoin, OneJoin, 0), 0, 0)

DropNext ==
  \/ \E u \in Users : JoinVoice(u)
  \/ \E k \in ConnIds : SocketOpen(k) \/ Deliver(k) \/ SocketDrops(k)
  \/ \E k \in ConnIds : RelayStep(k)
  \/ \E u \in Users, r \in Users : NegotiationStep(u, r)

DropSpec == DropInit /\ [][DropNext]_vars

\* C16: once a participant's control connection has dropped and the relay
\* has handled the close, the participant is no member of the room, and its
\* hook holds no peer connection and no remote stream.
C16_DropRecovered ==
  \A u \in Users :
    LET k == socketRef[u]
    IN (k # 0 /\ sockState[k] = "CLOSED" /\ conn[k].st = "CLOSED")
       => /\ u \notin PidSet(RegMembers(registry, RoomId(u)))
          /\ peersRef[u] = NoPeers
          /\ peers[u] = {}

\* ------------------------------------------------------------ the debounce
\* DebounceSpec: two users join once each and stay, the presence poll runs,
\* and the network drops a connected link once.
DebounceInit == InitWith(Joins(OneJoin, OneJoin, 0), 0, OneDrop)

DebounceNext ==
  \/ AliceJoins \/ BobJoins
  \/ \E u \in Users : PollTick(u) \/ PollApply(u)
  \/ \E k \in ConnIds : SocketOpen(k) \/ Deliver(k)
  \/ \E k \in ConnIds : RelayAccept(k) \/ RelayForward(k) \/ RelayDrop(k)
  \/ \E u \in Users, r \in Users : NegotiationStep(u, r) \/ IceStep(u, r)

DebounceSpec == DebounceInit /\ [][DebounceNext]_vars

\* The 5 s timer of u's link to r is running and the link is unhealthy.
Debouncing(u, r) ==
  /\ <<u, r>> \in timers
  /\ peersRef[u][r].ice \in {"disconnected", "failed"}

\* C18: while the 5 s timer of an unhealthy link is running, no step but the
\* timer's own replaces or removes the link or sends an offer for it.
C18_DebounceRespected ==
  [][\A u \in Users, r \in Users :
       (Debouncing(u, r) /\ ~TimerFire(u, r))
       => /\ peersRef'[u][r].id = peersRef[u][r].id
          /\ nOffer'[<<u, r>>] = nOffer[<<u, r>>]]_vars

\* ------------------------------------------------------ learning a peer again
\* RejoinSpec: "10" joins once and polls; "9", the larger id, may leave and
\* join again, so that "10" is told of "9" more than once.  ICE candidates
\* are gathered on the side of "9" only.
RejoinInit == InitWith(Joins(OneJoin, JoinsLow, 0), 0, 0)

RejoinNext ==
  \/ JoinVoice(U10) \/ JoinVoice(U9) \/ LeaveVoice(U9)
  \/ PollTick(U10) \/ PollApply(U10)
  \/ \E k \in ConnIds : SocketOpen(k) \/ Deliver(k)
  \/ \E k \in ConnIds : RelayStep(k) \/ RelayCloseSuperseded(k)
  \/ \E u \in Users, r \in Users :
       NegotiationStep(u, r) \/ IceChecking(u, r) \/ IceConnected(u, r)
  \/ IceCandidate(U9, U10)

RejoinSpec == RejoinInit /\ [][RejoinNext]_vars

\* u's link to r has an offer outstanding, or is connected.
OfferingOrConnected(u, r) ==
  /\ peersRef[u][r].id # 0
  /\ peersRef[u][r].sig = "have-local-offer" \/ peersRef[u][r].ice = "connected"

\* The next message event of connection k names r: a snapshot listing r, or
\* a join notification of r.
NamesPeer(k, r) ==
  /\ sockState[k] = "OPEN"
  /\ down[k] # <<>>
  /\ r # conn[k].pid
  /\ \/ Head(down[k]).type = "existing-users" /\ r \in Range(Head(down[k]).users)
     \/ Head(down[k]).type = "user-joined" /\ Head(down[k]).userId = r

\* This step tells u of r: by a message event, or by a poll response.
LearnsOf(u, r) ==
  \/ \E k \in ConnIds : conn[k].pid = u /\ NamesPeer(k, r) /\ Deliver(k)
  \/ poll[u].live /\ poll[u].conn /\ r \in Range(poll[u].users) /\ PollApply(u)

LeaveAtHead(k, s) ==
  /\ sockState[k] = "OPEN"
  /\ down[k] # <<>>
  /\ Head(down[k]).type = "user-left"
  /\ Head(down[k]).userId = s
  /\ s # conn[k].pid

\* C20: handling the leave notification of s leaves the receiver u with no
\* connection (the entry is gone, the RTCPeerConnection closed, nothing
\* received for it kept), no stream and no connectedUsers entry for s, and
\* changes nothing u holds for any other participant, and nothing of any
\* other user.
C20_LeaveHandled ==
  [][\A k \in ConnIds, s \in Users :
       (LeaveAtHead(k, s) /\ Deliver(k))
       => LET u == conn[k].pid
          IN /\ peersRef'[u][s] = NoPc
             /\ NoPc.sig = "closed" /\ NoPc.ice = "closed"
             /\ NoPc.seen = <<>> /\ NoPc.cands = <<>>
             /\ s \notin peers'[u]
             /\ s \notin Range(connectedUsers'[u])
             /\ \A r \in Users \ {s} :
                  /\ peersRef'[u][r] = peersRef[u][r]
                  /\ (r \in peers'[u]) = (r \in peers[u])
             /\ connectedUsers'[u] = SelectSeq(connectedUsers[u], LAMBDA x : x # s)
             /\ \A v \in Users \ {u} :
                  /\ peersRef'[v] = peersRef[v]
                  /\ peers'[v] = peers[v]
                  /\ connectedUsers'[v] = connectedUsers[v]]_vars

\* "10", in voice since its first join, had offered to "9" and to "91"; "9"
\* has left and "10" has handled the notification: it holds nothing for "9"
\* and still holds its connection and entry for "91".
C20_Witness ==
  /\ isConnected[U10] /\ joinsLeft[U10] = JoinsLow - 1
  /\ ~isConnected[U9] /\ joinsLeft[U9] = 0
  /\ nOffer[<<U10, U9>>] > 0
  /\ peersRef[U10][U9] = NoPc
  /\ U9 \notin Range(connectedUsers[U10])
  /\ peersRef[U10][U91].id # 0
  /\ U91 \in Range(connectedUsers[U10])

\* ------------------------------------------------------------- join fan-out
\* What this step has put on connection j's queue.
Added(j) == SubSeq(down'[j], Len(down[j]) + 1, Len(down'[j]))

\* The join notifications for p among them.
JoinsOf(j, p) ==
  Cardinality({i \in DOMAIN Added(j) :
                 Added(j)[i].type = "user-joined" /\ Added(j)[i].userId = p})

\* The room_states among them.
RoomStates(j) ==
  {i \in DOMAIN Added(j) : Added(j)[i].type = "existing-users"}

\* The relay's bytes still reach the client end of connection j.
Reachable(j) == sockState[j] # "CLOSED" /\ ~conn[j].cut

CloseInit == InitWith(Joins(JoinsLow, JoinsHigh, 0), 0, 0)

CutOfNine(k) == conn[k].pid = U9 /\ NetworkCut(k)

CloseNext ==
  \/ \E u \in Users : JoinVoice(u)
  \/ LeaveVoice(U10)
  \/ \E k \in ConnIds : SocketOpen(k) \/ Deliver(k) \/ CutOfNine(k)
  \/ \E k \in ConnIds : RelayStep(k) \/ RelayCloseSuperseded(k)
  \/ \E k \in ConnIds : RelayPing(k) \/ RelayTimeout(k)
  \/ \E u \in Users, r \in Users : NegotiationStep(u, r)
  \/ PingInterval

CloseSpec == CloseInit /\ [][CloseNext]_vars

\* The leave notifications among what this step has put on j's queue (what
\* a superseded connection is told about itself is not one).
LeavesAdded(j) ==
  {i \in DOMAIN Added(j) :
     /\ Added(j)[i].type = "user-left"
     /\ ~(Added(j)[i].reason = "superseded" /\ conn'[j].st = "CLOSING")}

\* C22: a closed connection is never a registered member; the step that
\* closes a connection (client close, timeout, supersession) removes its
\* participant and tells every remaining member; a leave notification is
\* put on a queue only in a step after which the registry does not list the
\* participant; nothing is put on the queue of a closed connection.
C22_SynchronousLeave ==
  /\ [](\A k \in ConnIds :
          conn[k].st = "CLOSED" => k \notin ConnsOf(RegMembers(registry, conn[k].room)))
  /\ [][\A k \in ConnIds :
          /\ (conn[k].st # "CLOSED" /\ conn'[k].st = "CLOSED")
             => /\ conn[k].pid \notin PidSet(RegMembers(registry', conn[k].room))
                /\ LeaveToldTo(conn[k].pid)
          /\ \A i \in LeavesAdded(k) :
               Added(k)[i].userId \notin PidSet(RegMembers(registry', conn[k].room))
          /\ conn[k].st = "CLOSED" => Len(down'[k]) <= Len(down[k])]_vars

\* The first connection of "10" was closed (by its client or by
\* supersession), the connection of "9" was closed by timeout, and the
\* second connection of "10", still ACTIVE, holds the leave notification.
C22_Witness ==
  /\ \E k \in ConnIds : conn[k].st = "CLOSED" /\ conn[k].pid = U9 /\ conn[k].cut
  /\ \E k \in ConnIds : conn[k].st = "CLOSED" /\ conn[k].pid = U10
  /\ \E j \in ConnIds :
       /\ conn[j].st = "ACTIVE" /\ conn[j].pid = U10
       /\ \E i \in DOMAIN down[j] :
            down[j][i].type = "user-left" /\ down[j][i].reason = "timeout"

\* --------------------------------------------------------- liberal receiver
\* A frame that does not parse, and a frame of a type nobody knows.
BadTypes == {"unparseable", "unknown"}

BadInFlight(q) ==
  \E k \in ConnIds : \E i \in DOMAIN q[k] : q[k][i].type \in BadTypes

\* A bad frame arrives at the relay on connection k (once in a run).
BadFrameUp(k, type) ==
  /\ conn[k].st = "ACTIVE" /\ sockState[k] = "OPEN"
  /\ ~BadInFlight(up)
  /\ ~\E e \in log : e.kind = "dropped-by-relay" /\ e.type \in BadTypes
  /\ up' = [up EXCEPT ![k] = Append(@, Ctl(type, NoUser))]
  /\ UNCHANGED <<conn, registry, down, clientVars, envVars, histVars>>

\* A bad frame arrives at the client of connection k (once in a run).
BadFrameDown(k, type) ==
  /\ conn[k].st = "ACTIVE" /\ sockState[k] = "OPEN"
  /\ ~BadInFlight(down)
  /\ ~\E e \in log : e.kind = "ignored-by-client" /\ e.type \in BadTypes
  /\ down' = [down EXCEPT ![k] = Append(@, Ctl(type, NoUser))]
  /\ UNCHANGED <<conn, registry, up, clientVars, envVars, histVars>>

\* LiberalSpec: two users join once each and may leave; a bad frame may
\* arrive on either side; the log is kept.
LiberalInit == InitLogged(Joins(OneJoin, OneJoin, 0), 0, 0)

LiberalNext ==
  \/ \E u \in Users : JoinVoice(u) \/ LeaveVoice(u)
  \/ \E k \in ConnIds : SocketOpen(k) \/ Deliver(k)
  \/ \E k \in ConnIds : RelayStep(k)
  \/ \E u \in Users, r \in Users : NegotiationStep(u, r)
  \/ \E k \in ConnIds, t \in BadTypes : BadFrameUp(k, t) \/ BadFrameDown(k, t)

LiberalSpec == LiberalInit /\ [][LiberalNext]_vars

\* The envelope the relay handles next on connection k names a target with
\* no registered connection in the room.
UnknownTarget(k) ==
  /\ conn[k].st = "ACTIVE"
  /\ up[k] # <<>>
  /\ Head(up[k]).type \in Targeted
  /\ RegConn(registry, conn[k].room, Head(up[k]).targetUserId) = {}

\* C23: the relay's handling of an envelope for an unknown target puts
\* nothing on any connection's queue (none for the sender either), changes
\* no connection's state and not the Registry, and goes on with the
\* sender's next envelope.
C23_UnknownTargetDropped ==
  [][\A k \in ConnIds :
       (UnknownTarget(k) /\ RelayForward(k))
       => /\ down' = down
          /\ conn' = conn
          /\ registry' = registry
          /\ up'[k] = Tail(up[k])]_vars

\* The relay has dropped an envelope for an unknown target, and the
\* sender's connection is still ACTIVE.
C23_Witness ==
  \E e \in log :
    /\ e.kind = "unknown-target"
    /\ conn[e.conn].st = "ACTIVE"
    /\ sockState[e.conn] = "OPEN"

\* The client of connection k handles next a frame it does not know.
BadAtClient(k) ==
  /\ sockState[k] = "OPEN"
  /\ down[k] # <<>>
  /\ Head(down[k]).type \notin ClientTypes

\* C24: a frame the relay does not know is dropped: no connection's state,
\* no membership and no queue of deliveries changes, and the relay goes on
\* with the connection's next envelope; a frame the client does not know
\* changes no socket, link, stream or member list and sends nothing, and
\* the client goes on with the next message.
C24_LiberalReceiver ==
  [][\A k \in ConnIds :
       /\ RelayDrop(k)
          => /\ conn' = conn /\ registry' = registry /\ down' = down
             /\ up'[k] = Tail(up[k])
       /\ (BadAtClient(k) /\ Deliver(k))
          => /\ UNCHANGED <<conn, registry, up, sockState, socketRef, isConnected,
                            connectedUsers, peersRef, peers, pcCtr>>
             /\ down'[k] = Tail(down[k])]_vars

\* The relay dropped a bad frame of "10" before "10" had made its offer,
\* the hook of "9" ignored a bad frame before it had any connection, and
\* afterwards the offer of "10" went through both and was applied by "9".
C24_Witness ==
  /\ \E e \in log :
       /\ e.kind = "dropped-by-relay" /\ e.type \in BadTypes
       /\ e.user = U10 /\ e.ctr = 0
       /\ conn[e.conn].st = "ACTIVE"
  /\ \E e \in log :
       /\ e.kind = "ignored-by-client" /\ e.type \in BadTypes
       /\ e.user = U9 /\ e.ctr = 0
       /\ sockState[e.conn] = "OPEN"
  /\ peersRef[U9][U10].remote # 0

\* ------------------------------------------------- no ghost links after leave
\* C25: a participant who is not in voice (leaveVoice has run, or joinVoice
\* never has) holds no RTCPeerConnection, has an empty connectedUsers list
\* and exposes no peer stream.
C25_NoGhostLinks ==
  \A u \in Users :
    ~isConnected[u]
    => /\ peersRef[u] = NoPeers
       /\ connectedUsers[u] = <<>>
       /\ peers[u] = {}

\* ------------------------------------------------ single live link per remote
\* The awaited call of a closed connection goes on as if nothing had
\* happened and sends its offer.
OrphanSends(u, r) ==
  /\ \E o \in orphans :
       /\ o.user = u /\ o.remote = r
       /\ o.pend # "settled"
       /\ orphans' = (orphans \ {o}) \cup {[o EXCEPT !.pend = "settled"]}
       /\ up' = SendVia(up, u, Env("offer", u, r, o.id, 0, 0, <<>>, ""))
  /\ UNCHANGED <<conn, registry, down, clientVars, envVars, nOffer, nAnswer, relLog,
                 answerDropped, joining, logVars>>

\* The awaited call of a closed connection (createOffer, setLocalDescription,
\* setRemoteDescription, createAnswer) is rejected, which the catch of
\* createPeerConnection logs, or never settles: the send after it is not
\* reached.
OrphanSettles(u, r) ==
  /\ \E o \in orphans :
       /\ o.user = u /\ o.remote = r
       /\ o.pend # "settled"
       /\ orphans' = (orphans \ {o}) \cup {[o EXCEPT !.pend = "settled"]}
  /\ UNCHANGED <<relayVars, clientVars, envVars, nOffer, nAnswer, relLog,
                 answerDropped, joining, logVars>>

\* LinkSpec: "10" joins twice and "9" once, with leaves and a superseding
\* rejoin, so that connections are closed and replaced while their setup is
\* awaited; the closed connections are kept in orphans.
LinkInit == InitLinks(Joins(JoinsLow, JoinsHigh, 0), 0, 0)

LinkNext ==
  \/ \E u \in Users : JoinVoice(u) \/ LeaveVoice(u)
  \/ \E k \in ConnIds : SocketOpen(k) \/ Deliver(k)
  \/ \E k \in ConnIds : RelayStep(k) \/ RelayCloseSuperseded(k)
  \/ \E u \in Users, r \in Users : NegotiationStep(u, r)
  \/ \E u \in Users, r \in Users : OrphanSettles(u, r)

LinkSpec == LinkInit /\ [][LinkNext]_vars

\* The envelopes this step appends to the relay's queue of connection k.
Sent(k) ==
  IF Len(up'[k]) > Len(up[k])
  THEN SubSeq(up'[k], Len(up[k]) + 1, Len(up'[k]))
  ELSE <<>>

\* C26: the connections a participant holds are different connections, one
\* per remote id at most, and none of them is a connection that was closed;
\* a connection that leaves peersRef (replaced or deleted) is in it nowhere
\* afterwards, and its awaited call is left behind; every offer and answer
\* that is sent is sent by the connection held for its target at that
\* moment, never by a closed one.
C26_SingleLiveLink ==
  /\ [](\A u \in Users :
         /\ \A r1 \in Users, r2 \in Users :
              (r1 # r2 /\ peersRef[u][r1].id # 0) => peersRef[u][r1].id # peersRef[u][r2].id
         /\ \A o \in orphans : \A r \in Users : peersRef[o.user][r].id # o.id)
  /\ [][/\ \A u \in Users, r \in Users :
            (peersRef[u][r].id # 0 /\ peersRef'[u][r].id # peersRef[u][r].id)
            => /\ \A x \in Users : peersRef'[u][x].id # peersRef[u][r].id
               /\ peersRef[u][r].pend # "none"
                  => \E o \in orphans' : o.user = u /\ o.remote = r
                                          /\ o.id = peersRef[u][r].id
        /\ \A k \in ConnIds : \A i \in DOMAIN Sent(k) :
            Sent(k)[i].type \in {"offer", "answer"}
            => /\ Sent(k)[i].pc # 0
               /\ Sent(k)[i].pc = peersRef[Sent(k)[i].userId][Sent(k)[i].targetUserId].id
               /\ \A o \in orphans :
                    o.user = Sent(k)[i].userId => o.id # Sent(k)[i].pc]_vars

\* A connection of "9" to "10" was closed while its setup was awaited, the
\* awaited call has settled, and "9" holds a later connection to "10" that
\* has sent its answer.
C26_Witness ==
  \E o \in orphans :
    /\ o.user = U9 /\ o.remote = U10
    /\ o.pend = "settled"
    /\ peersRef[U9][U10].id > o.id
    /\ peersRef[U9][U10].local
    /\ nAnswer[<<U9, U10>>] > 0

\* ------------------------------------------------ joinVoice in its two steps
\* A click on Join (the button is rendered while !isConnected and stays
\* enabled while a call is in progress): joinVoice runs up to its await of
\* getUserMedia.
JoinCall(u) ==
  /\ joinsLeft[u] > 0
  /\ ~isConnected[u]
  /\ joinsLeft' = [joinsLeft EXCEPT ![u] = @ - 1]
  /\ joining' = [joining EXCEPT ![u] = @ + 1]
  /\ UNCHANGED <<relayVars, clientVars, pollsLeft, dropsLeft, nOffer, nAnswer, relLog,
                 answerDropped, orphans, logVars>>

\* getUserMedia resolves: the stream is kept, connectSocket() puts a new
\* WebSocket into socketRef.current, setIsConnected(true),
\* setConnectedUsers([self]).  Nothing is tested first.
JoinGranted(u) ==
  /\ joining[u] > 0
  /\ FreeConns # {}
  /\ LET k == CHOOSE j \in FreeConns : \A i \in FreeConns : j <= i
     IN /\ conn' = [conn EXCEPT ![k] = [st |-> "CONNECTING", pid |-> u, room |-> RoomId(u),
                                         idle |-> 0, cut |-> FALSE]]
        /\ sockState' = [sockState EXCEPT ![k] = "CONNECTING"]
        /\ socketRef' = [socketRef EXCEPT ![u] = k]
  /\ joining' = [joining EXCEPT ![u] = @ - 1]
  /\ localStream' = [localStream EXCEPT ![u] = TRUE]
  /\ isConnected' = [isConnected EXCEPT ![u] = TRUE]
  /\ connectedUsers' = [connectedUsers EXCEPT ![u] = <<u>>]
  /\ relLog' = [relLog EXCEPT ![u] = <<>>]
  /\ UNCHANGED <<registry, up, down, peersRef, peers, pcCtr, poll, timers,
                 envVars, nOffer, nAnswer, answerDropped, orphans, logVars>>

\* The failure is not noticed: the call goes on as if the stream were there.
JoinDeniedConnects(u) == JoinGranted(u)

\* getUserMedia rejects: the catch logs and alerts.
JoinDenied(u) ==
  /\ joining[u] > 0
  /\ joining' = [joining EXCEPT ![u] = @ - 1]
  /\ UNCHANGED <<relayVars, clientVars, envVars, nOffer, nAnswer, relLog,
                 answerDropped, orphans, logVars>>

\* JoinSpec: "10" clicks Join twice and "9" once; every call is granted or
\* denied; with leaves, the relay and the negotiation.
JoinInit == InitWith(Joins(JoinsLow, JoinsHigh, 0), 0, 0)

JoinNext ==
  \/ \E u \in Users : JoinCall(u) \/ JoinGranted(u) \/ JoinDenied(u) \/ LeaveVoice(u)
  \/ \E k \in ConnIds : SocketOpen(k) \/ Deliver(k)
  \/ \E k \in ConnIds : RelayStep(k) \/ RelayCloseSuperseded(k)
  \/ \E u \in Users, r \in Users : NegotiationStep(u, r)

JoinSpec == JoinInit /\ [][JoinNext]_vars

\* The control sockets of u that are not closed.
OpenSockets(u) ==
  {k \in ConnIds : conn[k].pid = u /\ sockState[k] \in {"CONNECTING", "OPEN"}}

\* C27: a participant has at most one control WebSocket that is not closed,
\* and none once leaveVoice has run (until joinVoice opens the next).
C27_SingleControlSocket ==
  \A u \in Users :
    /\ Cardinality(OpenSockets(u)) <= 1
    /\ ~isConnected[u] => OpenSockets(u) = {}

\* C30: a joinVoice whose microphone acquisition fails opens no control
\* socket, leaves isConnected, connectedUsers and every other part of the
\* client as they were, and retains no local stream.
C30_FailedJoinUnchanged ==
  [][\A u \in Users :
       JoinDenied(u)
       => /\ UNCHANGED <<conn, sockState, socketRef, isConnected, connectedUsers,
                         localStream, up>>
          /\ ~isConnected[u] => (socketRef'[u] = 0 /\ ~localStream'[u])]_vars

\* The one joinVoice of "9" has failed: "9" is not connected, has no socket
\* and no stream, and the relay has never seen a connection of "9".
C30_Witness ==
  /\ joinsLeft[U9] = 0 /\ joining[U9] = 0
  /\ ~isConnected[U9] /\ socketRef[U9] = 0 /\ ~localStream[U9]
  /\ connectedUsers[U9] = <<>>
  /\ \A k \in ConnIds : conn[k].pid # U9
  /\ isConnected[U10]

\* ------------------------------------------------ polls and healthy links
\* HealSpec: "9" and "10" join and negotiate, the media path may fail once,
\* and a budget of presence polls is fetched and applied; the polls applied
\* are logged with the connections held at that moment.  ICE candidates are
\* gathered on the side of "9" only.
HealInit == InitPollLog(Joins(OneJoin, OneJoin, 0), MaxPolls, OneDrop)

HealNext ==
  \/ AliceJoins \/ BobJoins
  \/ \E u \in Users : PollFetch(u) \/ PollApply(u)
  \/ \E k \in ConnIds : SocketOpen(k) \/ Deliver(k)
  \/ \E k \in ConnIds : RelayAccept(k) \/ RelayForward(k) \/ RelayDrop(k)
  \/ \E u \in Users, r \in Users :
       \/ NegotiationStep(u, r)
       \/ IceChecking(u, r) \/ IceConnected(u, r)
       \/ IceDisconnected(u, r) \/ IceFailed(u, r)
       \/ TimerFire(u, r)
  \/ IceCandidate(U9, U10)

HealSpec == HealInit /\ [][HealNext]_vars

\* The link is one createPeerConnection keeps.
Healthy(pc) ==
  /\ pc.id # 0
  /\ \/ pc.ice \in {"connected", "checking", "completed"}
     \/ pc.sig = "have-local-offer"

\* C28: a poll response applied by u sends nothing; it changes u's link to
\* r only if r is listed, u has the smaller id and the link is missing or
\* its ICE state is failed, disconnected or closed, and then into a new
\* connection that is about to offer; a link that is connected, checking or
\* completed, or has a local offer outstanding, is left as it is.
C28_PollKeepsHealthyLink ==
  [][\A u \in Users :
       (PollApply(u) /\ poll[u].conn)
       => /\ up' = up
          /\ \A r \in Users :
               /\ Healthy(peersRef[u][r]) => peersRef'[u][r] = peersRef[u][r]
               /\ peersRef'[u][r] # peersRef[u][r]
                  => /\ r \in Range(poll[u].users) /\ r # u
                     /\ IsInitiator(u, r)
                     /\ \/ peersRef[u][r].id = 0
                        \/ peersRef[u][r].ice \in {"failed", "disconnected", "closed"}
                     /\ peersRef'[u][r].id > pcCtr[u]
                     /\ peersRef'[u][r].pend = "offer"]_vars

\* "10" has applied a poll that lists "9" while its link to "9" was
\* connected, and holds that link unchanged; and "10" has applied a poll
\* that lists "9" while the link was missing or dead.
C28_Witness ==
  /\ \E e \in log :
       /\ e.kind = "poll" /\ e.user = U10 /\ U9 \in Range(e.users)
       /\ e.pcs[U9].ice = "connected"
       /\ peersRef[U10][U9] = e.pcs[U9]
  /\ \E e \in log :
       /\ e.kind = "poll" /\ e.user = U10 /\ U9 \in Range(e.users)
       /\ ~Healthy(e.pcs[U9])
       /\ (e.pcs[U9].id = 0 \/ e.pcs[U9].ice \in {"failed", "disconnected", "closed"})

\* ------------------------------------------------------ no duplicate members
\* MemberSpec: PollSpec with the applied polls logged: two users join and
\* leave, room_state, joins, offers and leaves are delivered, and a budget
\* of presence polls is fetched and applied.
MemberInit == InitPollLog(Joins(OneJoin, OneJoin, 0), MaxPolls, 0)

MemberSpec == MemberInit /\ [][PollNext]_vars

\* C29: connectedUsers holds at most one entry per userId.
C29_NoDuplicateMembers ==
  \A u \in Users :
    \A i \in DOMAIN connectedUsers[u], j \in DOMAIN connectedUsers[u] :
      connectedUsers[u][i] = connectedUsers[u][j] => i = j

\* "10" has applied a poll that lists itself and "9" while it held a
\* connection to "9" (and so had "9" in its list already), still holds that
\* connection, and its list is itself and "9".
C29_Witness ==
  /\ \E e \in log :
       /\ e.kind = "poll" /\ e.user = U10
       /\ U9 \in Range(e.users) /\ U10 \in Range(e.users)
       /\ e.pcs[U9].id # 0
       /\ peersRef[U10][U9].id = e.pcs[U9].id
  /\ connectedUsers[U10] = <<U10, U9>>

====
